---- MODULE Spec2Model ----
(***************************************************************************)
(* NSE screener: the indicator / snapshot / filter pipeline of app.py and  *)
(* the incremental price-table update of update_db.py.                     *)
(*                                                                         *)
(* A DataFrame is a record [cols, rows]: cols is the set of column keys,   *)
(* rows a sequence of functions from cols to values.  A column key is a    *)
(* tuple: <<"close">>, <<"sma", 2>>, <<"ratio", "sma", 1, 2>>.             *)
(* Floating-point values are held as exact fractions <<num, den>> with     *)
(* den > 0; NaN is <<0, 0>>.  open/close/volume of a bar are integers.     *)
(* RSI and ADX (pandas_ta) are outside the repository: every configuration *)
(* of the model leaves enable_rsi and enable_adx at their default, False.  *)
(***************************************************************************)
EXTENDS Integers, Sequences, FiniteSets, TLC

VARIABLES prices, pc, df, cfg, error, latest, ctl, f,
          db, run, phase, tickers, idx, last_dates, failed

appVars == <<prices, pc, df, cfg, error, latest, ctl, f>>
updVars == <<db, run, phase, tickers, idx, last_dates, failed>>
vars == <<prices, pc, df, cfg, error, latest, ctl, f,
          db, run, phase, tickers, idx, last_dates, failed>>

-----------------------------------------------------------------------------
(* Bounds of the model *)

MaxRows == 4
MaxDate == 3
MaxEnabled == 1

(* Program constants *)

BENCHMARK_SYMBOL == "NIFTY"
WeeklyLag == 5
MonthlyLag == 21

\* The symbols of the model, in the order pandas sorts their names.
SymbolOrder == <<"ACC", "NIFTY">>
Symbols == {SymbolOrder[i] : i \in 1..Len(SymbolOrder)}
SymbolRank(s) == CHOOSE i \in 1..Len(SymbolOrder) : SymbolOrder[i] = s
Dates == 1..MaxDate

\* The (open, close, volume) triples a bar of the model may carry.
BarValues == { [open |-> 2, close |-> 1, volume |-> 3],
               [open |-> 1, close |-> 2, volume |-> 1] }

NaN == <<0, 0>>
IsNaN(v) == v[2] = 0

RequiredCols == { <<"symbol">>, <<"date">>, <<"open">>, <<"high">>, <<"low">>,
                  <<"close">>, <<"volume">> }

Max2(a, b) == IF a >= b THEN a ELSE b
Min2(a, b) == IF a <= b THEN a ELSE b

RECURSIVE Flatten(_)
Flatten(ss) == IF ss = << >> THEN << >> ELSE Head(ss) \o Flatten(Tail(ss))

SeqToSet(s) == {s[i] : i \in 1..Len(s)}

\* row r extended (or overwritten) with the columns of the function add
WithCols(r, add) == add @@ r

Column(rows, c) == [i \in 1..Len(rows) |-> rows[i][c]]

-----------------------------------------------------------------------------
(* DataFrame.sort_values: a stable ordering by the listed columns *)

SortKey(c, v) == IF c = <<"symbol">> THEN SymbolRank(v) ELSE v

RECURSIVE LexLeq(_, _, _)
LexLeq(a, b, by) ==
    IF by = << >> THEN TRUE
    ELSE LET ka == SortKey(Head(by), a[Head(by)])
             kb == SortKey(Head(by), b[Head(by)])
         IN IF ka < kb THEN TRUE
            ELSE IF ka > kb THEN FALSE
            ELSE LexLeq(a, b, Tail(by))

RECURSIVE InsertRow(_, _, _)
InsertRow(r, sorted, by) ==
    IF sorted = << >> THEN <<r>>
    ELSE IF LexLeq(Head(sorted), r, by)
         THEN <<Head(sorted)>> \o InsertRow(r, Tail(sorted), by)
         ELSE <<r>> \o sorted

RECURSIVE SortRows(_, _)
SortRows(rows, by) ==
    IF rows = << >> THEN << >>
    ELSE InsertRow(rows[Len(rows)], SortRows(SubSeq(rows, 1, Len(rows) - 1), by), by)

\* the input taken as already sorted
SortValues_None(rows, by) == rows

SortValues(rows, by) == SortRows(rows, by)

\* df.groupby("symbol"): the groups in ascending key order, each keeping the
\* frame's row order
GroupKeys(rows) ==
    LET present == {rows[i][<<"symbol">>] : i \in 1..Len(rows)}
    IN SelectSeq(SymbolOrder, LAMBDA s : s \in present)

GroupRows(rows, sym) == SelectSeq(rows, LAMBDA r : r[<<"symbol">>] = sym)

-----------------------------------------------------------------------------
(* Series operations *)

\* a window that never drops the value leaving it
RECURSIVE RollSum_Expanding(_, _, _)
RollSum_Expanding(xs, p, i) ==
    IF i = 0 THEN 0 ELSE RollSum_Expanding(xs, p, i - 1) + xs[i]

\* Series.rolling(p).mean(): pandas slides the window, adding the entering
\* value and removing the leaving one; fewer than p observations give NaN.
RECURSIVE RollSum(_, _, _)
RollSum(xs, p, i) ==
    IF i = 0 THEN 0
    ELSE RollSum(xs, p, i - 1) + xs[i] - (IF i > p THEN xs[i - p] ELSE 0)

RollingMean(xs, p) ==
    [i \in 1..Len(xs) |-> IF i >= p THEN <<RollSum(xs, p, i), p>> ELSE NaN]

\* Series.ewm(span=p, adjust=False).mean(): y1 = x1,
\* y_i = a*x_i + (1-a)*y_(i-1) with a = 2/(p+1)
RECURSIVE EwmAt(_, _, _)
EwmAt(xs, p, i) ==
    IF i = 1 THEN <<xs[1], 1>>
    ELSE LET prev == EwmAt(xs, p, i - 1)
         IN <<2 * xs[i] * prev[2] + (p - 1) * prev[1], (p + 1) * prev[2]>>

EwmMean(xs, p) == [i \in 1..Len(xs) |-> EwmAt(xs, p, i)]

\* Series.pct_change(k) * 100
PctChange(xs, k) ==
    [i \in 1..Len(xs) |->
        IF i > k THEN <<100 * (xs[i] - xs[i - k]), xs[i - k]>> ELSE NaN]

\* a / b * 100 on fractions
RatioPct(a, b) ==
    IF IsNaN(a) \/ IsNaN(b) THEN NaN ELSE <<100 * a[1] * b[2], a[2] * b[1]>>

\* Series.shift(1)
Shift1(xs) == [i \in 1..Len(xs) |-> IF i = 1 THEN NaN ELSE <<xs[i - 1], 1>>]

-----------------------------------------------------------------------------
(* compute_indicators *)

NoError == [type |-> "none", what |-> << >>, at |-> ""]
KeyError(c, where) == [type |-> "KeyError", what |-> c, at |-> where]
ValueError(msg, where) == [type |-> "ValueError", what |-> <<msg>>, at |-> where]

Lower(t) == IF t = "SMA" THEN "sma" ELSE "ema"

ma_needed(c) ==
    SeqToSet(c.sma_periods) \cup SeqToSet(c.ema_periods) \cup {c.ratio_ma1, c.ratio_ma2}

ratio_col(c) == <<"ratio", Lower(c.ratio_type), c.ratio_ma1, c.ratio_ma2>>

\* the columns the loop body adds to a group
GroupCols(c) ==
    {<<"sma", p>> : p \in ma_needed(c)} \cup {<<"ema", p>> : p \in ma_needed(c)}
    \cup { <<"vol_sma", c.vol_sma_period>>, <<"chg_daily">>, <<"chg_weekly">>,
           <<"chg_monthly">>, ratio_col(c) }

\* the body of the loop over df.groupby("symbol"): g is one symbol's rows
GroupIndicators(g, c) ==
    LET close  == Column(g, <<"close">>)
        volume == Column(g, <<"volume">>)
        sma    == [p \in ma_needed(c) |-> RollingMean(close, p)]
        ema    == [p \in ma_needed(c) |-> EwmMean(close, p)]
        vol    == RollingMean(volume, c.vol_sma_period)
        daily  == PctChange(close, 1)
        weekly == PctChange(close, WeeklyLag)
        monthly == PctChange(close, MonthlyLag)
        col1   == IF c.ratio_type = "SMA" THEN sma[c.ratio_ma1] ELSE ema[c.ratio_ma1]
        col2   == IF c.ratio_type = "SMA" THEN sma[c.ratio_ma2] ELSE ema[c.ratio_ma2]
        value(i, k) ==
            IF k[1] = "sma" THEN sma[k[2]][i]
            ELSE IF k[1] = "ema" THEN ema[k[2]][i]
            ELSE IF k[1] = "vol_sma" THEN vol[i]
            ELSE IF k[1] = "chg_daily" THEN daily[i]
            ELSE IF k[1] = "chg_weekly" THEN weekly[i]
            ELSE IF k[1] = "chg_monthly" THEN monthly[i]
            ELSE RatioPct(col1[i], col2[i])
    IN [i \in 1..Len(g) |-> WithCols(g[i], [k \in GroupCols(c) |-> value(i, k)])]

\* df_result.merge(bench, on="date", how="left")
MergeLeft(rows, bench) ==
    Flatten([i \in 1..Len(rows) |->
        LET m == SelectSeq(bench, LAMBDA b : b.date = rows[i][<<"date">>])
        IN IF m = << >>
           THEN << WithCols(rows[i], <<"bench_close">> :> NaN) >>
           ELSE [j \in 1..Len(m) |->
                    WithCols(rows[i], <<"bench_close">> :> <<m[j].bench_close, 1>>)]])

RelativePerf(rows) ==
    LET picked == SelectSeq(rows, LAMBDA r : r[<<"symbol">>] = BENCHMARK_SYMBOL)
        bench  == [i \in 1..Len(picked) |->
                      [date |-> picked[i][<<"date">>], bench_close |-> picked[i][<<"close">>]]]
        merged == MergeLeft(rows, bench)
    IN [i \in 1..Len(merged) |->
          WithCols(merged[i],
                   <<"relative_perf">> :>
                       RatioPct(<<merged[i][<<"close">>], 1>>, merged[i][<<"bench_close">>]))]

\* pd.concat(results, ignore_index=True) followed by the optional benchmark join
ConcatResults(sorted, keys, c) ==
    LET results == [k \in 1..Len(keys) |-> GroupIndicators(GroupRows(sorted, keys[k]), c)]
        df_result == Flatten(results)
    IN IF c.enable_relative THEN RelativePerf(df_result) ELSE df_result

ResultCols(d, c) ==
    d.cols \cup GroupCols(c)
    \cup (IF c.enable_relative THEN {<<"bench_close">>, <<"relative_perf">>} ELSE {})

\* an engine that checks the seven input columns before anything else
MissingRead_Validate(d) ==
    LET order == << <<"symbol">>, <<"date">>, <<"open">>, <<"high">>, <<"low">>,
                    <<"close">>, <<"volume">> >>
        absent == SelectSeq(order, LAMBDA k : k \notin d.cols)
    IN IF absent = << >> THEN << >> ELSE Head(absent)

\* The first read of a column the frame lacks, in the order the body makes
\* them: sort_values(["symbol", "date"]), then g["close"] and g["volume"] in
\* the loop body, which runs only when there is a group.  << >> when every
\* read finds its column.  open, high and low are never read.
MissingRead(d) ==
    IF <<"symbol">> \notin d.cols THEN <<"symbol">>
    ELSE IF <<"date">> \notin d.cols THEN <<"date">>
    ELSE IF d.rows # << >> /\ <<"close">> \notin d.cols THEN <<"close">>
    ELSE IF d.rows # << >> /\ <<"volume">> \notin d.cols THEN <<"volume">>
    ELSE << >>

\* compute_indicators(df, ...): [error, df]; df is the enriched frame when error
\* is NoError.  A column the body reads and the frame lacks raises KeyError at
\* the first such read; an empty list handed to pd.concat raises ValueError.
compute_indicators(d, c) ==
    IF MissingRead(d) # << >>
    THEN [error |-> KeyError(MissingRead(d), "compute_indicators"), df |-> d]
    ELSE LET sorted == SortValues(d.rows, << <<"symbol">>, <<"date">> >>)
             keys   == GroupKeys(sorted)
         IN IF keys = << >>
            THEN [error |-> ValueError("No objects to concatenate", "compute_indicators"),
                  df |-> d]
            ELSE [error |-> NoError,
                  df |-> [cols |-> ResultCols(d, c), rows |-> ConcatResults(sorted, keys, c)]]

-----------------------------------------------------------------------------
(* The dashboard script: state and steps *)

\* Indicator settings of the sidebar the model explores
Configs ==
    { [sma_periods |-> <<2>>, ema_periods |-> << >>, vol_sma_period |-> 2,
       ratio_type |-> "SMA", ratio_ma1 |-> 1, ratio_ma2 |-> 2, enable_relative |-> FALSE],
      [sma_periods |-> <<1, 3>>, ema_periods |-> <<2>>, vol_sma_period |-> 1,
       ratio_type |-> "EMA", ratio_ma1 |-> 1, ratio_ma2 |-> 2, enable_relative |-> TRUE],
      [sma_periods |-> <<2>>, ema_periods |-> <<2>>, vol_sma_period |-> 2,
       ratio_type |-> "EMA", ratio_ma1 |-> 2, ratio_ma2 |-> 3, enable_relative |-> TRUE] }

NoConfig == [sma_periods |-> << >>, ema_periods |-> << >>, vol_sma_period |-> 0,
             ratio_type |-> "", ratio_ma1 |-> 0, ratio_ma2 |-> 0, enable_relative |-> FALSE]

EmptyFrame == [cols |-> {}, rows |-> << >>]

BarRow(s, d, v) ==
    (<<"symbol">> :> s) @@ (<<"date">> :> d) @@ (<<"open">> :> v.open)
    @@ (<<"high">> :> Max2(v.open, v.close)) @@ (<<"low">> :> Min2(v.open, v.close))
    @@ (<<"close">> :> v.close) @@ (<<"volume">> :> v.volume)

\* The orders in which the rows of the table may reach the engine
RowOrders == { [by |-> << <<"symbol">>, <<"date">> >>, reversed |-> FALSE],
               [by |-> << <<"symbol">>, <<"date">> >>, reversed |-> TRUE],
               [by |-> << <<"date">>, <<"symbol">> >>, reversed |-> FALSE],
               [by |-> << <<"date">>, <<"symbol">> >>, reversed |-> TRUE] }

RECURSIVE OrderedRows(_, _)
OrderedRows(S, by) ==
    IF S = {} THEN << >>
    ELSE LET m == CHOOSE r \in S : \A q \in S : LexLeq(r, q, by)
         IN <<m>> \o OrderedRows(S \ {m}, by)

Reverse(s) == [i \in 1..Len(s) |-> s[Len(s) + 1 - i]]

Restrict(r, cols) == [k \in cols |-> r[k]]

\* A bar enters the prices table (at most one per (symbol, date))
StoreBar ==
    /\ pc = "db"
    /\ Cardinality(prices) < MaxRows
    /\ \E s \in Symbols, d \in Dates, v \in BarValues :
          /\ \A b \in prices : ~(b[<<"symbol">>] = s /\ b[<<"date">>] = d)
          /\ prices' = prices \cup {BarRow(s, d, v)}
    /\ UNCHANGED <<pc, df, cfg, error, latest, ctl, f>>
    /\ UNCHANGED updVars

LoadedFrame(o, missing) ==
    LET cols == RequiredCols \ missing
        asc  == OrderedRows(prices, o.by)
        rows == IF o.reversed THEN Reverse(asc) ELSE asc
    IN [cols |-> cols, rows |-> [i \in 1..Len(rows) |-> Restrict(rows[i], cols)]]

\* df = load_data_from_db(conn): the seven columns of every row of prices; the
\* query has no ORDER BY, so the rows come in an order the code does not fix
Load ==
    /\ pc = "db"
    /\ \E o \in RowOrders : df' = LoadedFrame(o, {})
    /\ pc' = "loaded"
    /\ UNCHANGED <<prices, cfg, error, latest, ctl, f>>
    /\ UNCHANGED updVars

\* compute_indicators handed a table by another caller: as above, or with one
\* of the seven columns absent; its rows come by date, oldest or newest first
LoadTable ==
    /\ pc = "db"
    /\ \E o \in {r \in RowOrders : r.by[1] = <<"date">>}, missing \in {{}} \cup {{k} : k \in RequiredCols} :
          df' = LoadedFrame(o, missing)
    /\ pc' = "loaded"
    /\ UNCHANGED <<prices, cfg, error, latest, ctl, f>>
    /\ UNCHANGED updVars

\* df = compute_indicators(df, ...)
Compute ==
    /\ pc = "loaded"
    /\ \E c \in Configs :
          LET r == compute_indicators(df, c)
          IN /\ cfg' = c
             /\ error' = r.error
             /\ df' = r.df
             /\ pc' = IF r.error = NoError THEN "computed" ELSE "failed"
    /\ UNCHANGED <<prices, latest, ctl, f>>
    /\ UNCHANGED updVars

-----------------------------------------------------------------------------
(* latest: one row per symbol *)

RECURSIVE PickRows(_, _, _)
PickRows(rows, keep, i) ==
    IF i > Len(rows) THEN << >>
    ELSE (IF i \in keep THEN <<rows[i]>> ELSE << >>) \o PickRows(rows, keep, i + 1)

\* groupby("symbol").head(1) in place of tail(1)
Head1(rows) ==
    LET keep == {i \in 1..Len(rows) :
                    \A j \in 1..(i - 1) :
                        rows[j][<<"symbol">>] # rows[i][<<"symbol">>]}
    IN PickRows(rows, keep, 1)

\* groupby("symbol").tail(1): the last row of every symbol, in frame order
Tail1(rows) ==
    LET keep == {i \in 1..Len(rows) :
                    \A j \in (i + 1)..Len(rows) :
                        rows[j][<<"symbol">>] # rows[i][<<"symbol">>]}
    IN PickRows(rows, keep, 1)

\* df.sort_values("date").groupby("symbol").tail(1).reset_index(drop=True)
LatestRows(rows) == Tail1(SortValues(rows, << <<"date">> >>))

\* df.sort_values("date").groupby("symbol")["volume"].shift(1), assigned back
\* to df by row label
PrevVolume(rows) ==
    LET tagged == [i \in 1..Len(rows) |-> WithCols(rows[i], <<"index">> :> i)]
        sorted == SortValues(tagged, << <<"date">> >>)
        prev(i) ==
            LET g  == GroupRows(sorted, rows[i][<<"symbol">>])
                sh == Shift1(Column(g, <<"volume">>))
                j  == CHOOSE k \in 1..Len(g) : g[k][<<"index">>] = i
            IN sh[j]
    IN [i \in 1..Len(rows) |-> WithCols(rows[i], <<"prev_volume">> :> prev(i))]

\* the lines between compute_indicators and the filter widgets
Snapshot ==
    /\ pc = "computed"
    /\ LET rows == PrevVolume(df.rows)
           cols == df.cols \cup {<<"prev_volume">>}
           last == LatestRows(rows)
       IN /\ df' = [cols |-> cols, rows |-> rows]
          /\ IF <<"open">> \in cols
             THEN /\ latest' =
                        [cols |-> cols \cup {<<"open_close_diff">>},
                         rows |-> [i \in 1..Len(last) |->
                                     WithCols(last[i],
                                              <<"open_close_diff">> :>
                                                 last[i][<<"open">>] - last[i][<<"close">>])]]
                  /\ error' = error
                  /\ pc' = "snapshot"
             ELSE /\ latest' = [cols |-> cols, rows |-> last]
                  /\ error' = KeyError(<<"open">>, "latest")
                  /\ pc' = "failed"
    /\ UNCHANGED <<prices, cfg, ctl, f>>
    /\ UNCHANGED updVars

-----------------------------------------------------------------------------
(* Filters *)

\* a comparison that lets a NaN operand through
GtFrac_NaNPasses(a, b) == IsNaN(a) \/ IsNaN(b) \/ a[1] * b[2] > b[1] * a[2]

\* between() with both ends excluded
Between_Exclusive(v, lo, hi) == ~IsNaN(v) /\ lo * v[2] < v[1] /\ v[1] < hi * v[2]

\* comparisons of pandas on float columns: anything compared with NaN is False
GtFrac(a, b) == ~IsNaN(a) /\ ~IsNaN(b) /\ a[1] * b[2] > b[1] * a[2]
MulFrac(a, b) == IF IsNaN(a) \/ IsNaN(b) THEN NaN ELSE <<a[1] * b[1], a[2] * b[2]>>
\* Series.between(lo, hi): lo <= v <= hi
Between(v, lo, hi) == ~IsNaN(v) /\ lo * v[2] <= v[1] /\ v[1] <= hi * v[2]

\* ma_filters: one checkbox per SMA period, then one per EMA period
MaFilterCols(c) ==
    [i \in 1..Len(c.sma_periods) |-> <<"sma", c.sma_periods[i]>>]
    \o [i \in 1..Len(c.ema_periods) |-> <<"ema", c.ema_periods[i]>>]

Checkboxes(c) ==
    { <<"daily">>, <<"weekly">>, <<"monthly">>, <<"vol_surge">>, <<"vol_min">> }
    \cup SeqToSet(MaFilterCols(c))

\* Widget values the model explores
MinPrices == {1, 2}
VolMultipliers == { <<1, 1>>, <<3, 2>> }
DailyRanges == { <<-20, 20>>, <<0, 100>> }
WeeklyRange == <<-20, 20>>
MonthlyRange == <<-40, 40>>
MinVolumes == {2}

ControlsOf(c, mp, on, dr, vm, mv) ==
    [ min_price |-> mp,
      vol_multiplier |-> vm,
      enable_vol_min |-> <<"vol_min">> \in on,
      min_volume_value |-> mv,
      enable_daily |-> <<"daily">> \in on,
      daily_min |-> dr[1], daily_max |-> dr[2],
      enable_weekly |-> <<"weekly">> \in on,
      weekly_min |-> WeeklyRange[1], weekly_max |-> WeeklyRange[2],
      enable_monthly |-> <<"monthly">> \in on,
      monthly_min |-> MonthlyRange[1], monthly_max |-> MonthlyRange[2],
      ma_filters |-> [k \in SeqToSet(MaFilterCols(c)) |-> k \in on],
      vol_surge |-> <<"vol_surge">> \in on ]

\* The settings of the filter widgets for configuration c: at most MaxEnabled
\* boxes ticked; a value no enabled filter reads stays at the first choice
Controls(c) ==
    UNION { { ControlsOf(c, mp, on, dr, vm, mv) :
                mp \in MinPrices,
                dr \in IF <<"daily">> \in on THEN DailyRanges ELSE {<<-20, 20>>},
                vm \in IF <<"vol_surge">> \in on THEN VolMultipliers ELSE {<<3, 2>>},
                mv \in MinVolumes } :
            on \in {e \in SUBSET Checkboxes(c) : Cardinality(e) <= MaxEnabled} }

NoControls == ControlsOf(NoConfig, 0, {}, <<0, 0>>, <<0, 1>>, 0)

\* close > min_price in place of >=
MinPriceFilter_Strict(rows, w) ==
    SelectSeq(rows, LAMBDA r : r[<<"close">>] > w.min_price)

\* f = f[f["close"] >= min_price]
MinPriceFilter(rows, w) == SelectSeq(rows, LAMBDA r : r[<<"close">>] >= w.min_price)

RECURSIVE MaFilter(_, _, _, _)
MaFilter(rows, cols, todo, w) ==
    IF todo = << >> THEN rows
    ELSE LET col  == Head(todo)
             kept == IF w.ma_filters[col] /\ col \in cols
                     THEN SelectSeq(rows, LAMBDA r : GtFrac(<<r[<<"close">>], 1>>, r[col]))
                     ELSE rows
         IN MaFilter(kept, cols, Tail(todo), w)

\* f = latest.copy() and the chain of f = f[...] statements
FilterRows(frame, c, w) ==
    LET f0 == frame.rows
        f1 == MinPriceFilter(f0, w)
        f2 == IF w.enable_daily
              THEN SelectSeq(f1, LAMBDA r : Between(r[<<"chg_daily">>], w.daily_min, w.daily_max))
              ELSE f1
        f3 == IF w.enable_weekly
              THEN SelectSeq(f2, LAMBDA r : Between(r[<<"chg_weekly">>], w.weekly_min, w.weekly_max))
              ELSE f2
        f4 == IF w.enable_monthly
              THEN SelectSeq(f3, LAMBDA r : Between(r[<<"chg_monthly">>], w.monthly_min, w.monthly_max))
              ELSE f3
        f5 == MaFilter(f4, frame.cols, MaFilterCols(c), w)
        vol_col == <<"vol_sma", c.vol_sma_period>>
        f6 == IF w.vol_surge /\ vol_col \in frame.cols
              THEN SelectSeq(f5, LAMBDA r :
                        GtFrac(<<r[<<"volume">>], 1>>, MulFrac(w.vol_multiplier, r[vol_col])))
              ELSE f5
        f7 == IF w.enable_vol_min
              THEN SelectSeq(f6, LAMBDA r : r[<<"volume">>] >= w.min_volume_value)
              ELSE f6
    IN f7

ApplyFilters ==
    /\ pc = "snapshot"
    /\ \E w \in Controls(cfg) :
          /\ ctl' = w
          /\ f' = [cols |-> latest.cols, rows |-> FilterRows(latest, cfg, w)]
    /\ pc' = "filtered"
    /\ UNCHANGED <<prices, df, cfg, error, latest>>
    /\ UNCHANGED updVars

-----------------------------------------------------------------------------
(* The dashboard specification *)

UpdIdle ==
    /\ db = << >>
    /\ run = 0
    /\ phase = "idle"
    /\ tickers = << >>
    /\ idx = 0
    /\ last_dates = << >>
    /\ failed = {}

AppInit ==
    /\ prices = {}
    /\ pc = "db"
    /\ df = EmptyFrame
    /\ cfg = NoConfig
    /\ error = NoError
    /\ latest = EmptyFrame
    /\ ctl = NoControls
    /\ f = EmptyFrame

Init == AppInit /\ UpdIdle

Next == StoreBar \/ Load \/ Compute \/ Snapshot \/ ApplyFilters

Spec == Init /\ [][Next]_vars

\* compute_indicators (and the snapshot lines after it) on arbitrary tables
EngineNext == StoreBar \/ LoadTable \/ Compute \/ Snapshot

SpecEngine == Init /\ [][EngineNext]_vars

-----------------------------------------------------------------------------
(* update_db.py: one run appends the new bars of every ticker *)

MaxRuns == 2
MaxDays == 4

\* A date as the table stores it, 'YYYY-MM-DD', is <<year, month, day>>; a
\* Timestamp is the day's number within the year of FirstDay.
FirstDay == <<2024, 2, 28>>
None == << >>

IsLeap(y) == (y % 4 = 0 /\ y % 100 # 0) \/ y % 400 = 0
DaysInMonth(y, m) ==
    IF m = 2 THEN (IF IsLeap(y) THEN 29 ELSE 28)
    ELSE IF m \in {4, 6, 9, 11} THEN 30 ELSE 31

RECURSIVE DaysBefore(_, _)
DaysBefore(y, m) == IF m = 1 THEN 0 ELSE DaysBefore(y, m - 1) + DaysInMonth(y, m - 1)

\* pd.to_datetime(text)
to_datetime(t) == DaysBefore(t[1], t[2]) + t[3]

\* Timestamp.strftime('%Y-%m-%d')
strftime(n) ==
    LET y == FirstDay[1]
        m == CHOOSE k \in 1..12 : DaysBefore(y, k) < n /\ n <= DaysBefore(y, k) + DaysInMonth(y, k)
    IN <<y, m, n - DaysBefore(y, m)>>

\* comparison of two 'YYYY-MM-DD' strings, as SQLite's MAX over TEXT makes it
TextLess(a, b) ==
    \/ a[1] < b[1]
    \/ a[1] = b[1] /\ a[2] < b[2]
    \/ a[1] = b[1] /\ a[2] = b[2] /\ a[3] < b[3]

\* the trading days the downloader may know of
MarketDays == {to_datetime(FirstDay) + k : k \in 0..(MaxDays - 1)}

\* the SYMBOL column of the exchange's list, after dropna().unique()
NseSymbols == {"ACC", "TCS"}
SymbolLists == { <<"ACC">>, <<"TCS">>, <<"ACC", "TCS">>, <<"TCS", "ACC">> }

\* t + ".NS" and ticker.split('.')[0]
TickerOf(sym) == <<sym, "NS">>
SymbolOf(ticker) == ticker[1]

\* SELECT MAX(date) FROM prices WHERE symbol = ?
MaxDateOf(table, sym) ==
    LET ds == {table[i].date : i \in {j \in 1..Len(table) : table[j].symbol = sym}}
    IN IF ds = {} THEN None
       ELSE CHOOSE d \in ds : \A e \in ds : e = d \/ TextLess(e, d)

\* the start taken as the last stored day itself, without the added day
StartOf_SameDay(last_date) ==
    IF last_date # None THEN strftime(to_datetime(last_date)) ELSE None

\* (pd.to_datetime(last_date) + pd.Timedelta(days=1)).strftime('%Y-%m-%d')
StartOf(last_date) ==
    IF last_date # None THEN strftime(to_datetime(last_date) + 1) ELSE None

\* what yf.download may return: bars of known trading days, none before start
Downloads(start) ==
    SUBSET {n \in MarketDays : start = None \/ n >= to_datetime(start)}

RECURSIVE AscendingDays(_)
AscendingDays(S) ==
    IF S = {} THEN << >>
    ELSE LET m == CHOOSE n \in S : \A k \in S : n <= k
         IN <<m>> \o AscendingDays(S \ {m})

\* the frame handed to to_sql: one row per downloaded bar
NewRows(ticker, data, r) ==
    LET days == AscendingDays(data)
    IN [i \in 1..Len(days) |->
          [symbol |-> SymbolOf(ticker), date |-> strftime(days[i]), run |-> r]]

UpdInit == AppInit /\ UpdIdle

\* the script starts: connect, CREATE TABLE IF NOT EXISTS, fetch the list
StartRun ==
    /\ phase \in {"idle", "done"}
    /\ run < MaxRuns
    /\ run' = run + 1
    /\ \E fetched \in BOOLEAN, syms \in SymbolLists :
          IF fetched
          THEN /\ tickers' = [i \in 1..Len(syms) |-> TickerOf(syms[i])]
               /\ phase' = "select"
          ELSE /\ tickers' = << >>
               /\ phase' = "done"
    /\ idx' = 0
    /\ last_dates' = << >>
    /\ failed' = {}
    /\ UNCHANGED db
    /\ UNCHANGED appVars

\* the loop that fills last_dates
ReadLastDates ==
    /\ phase = "select"
    /\ last_dates' = [t \in SeqToSet(tickers) |-> MaxDateOf(db, SymbolOf(t))]
    /\ idx' = 1
    /\ phase' = "loop"
    /\ UNCHANGED <<db, run, tickers, failed>>
    /\ UNCHANGED appVars

\* one iteration of "for ticker in tqdm(tickers)": the download raises, is
\* empty, or yields bars; to_sql appends them in one transaction or raises
ProcessTicker ==
    /\ phase = "loop"
    /\ idx <= Len(tickers)
    /\ LET ticker == tickers[idx]
           start  == StartOf(last_dates[ticker])
       IN \E outcome \in {"download_error", "insert_error", "stored"},
             data \in Downloads(start) :
             /\ outcome = "download_error" => data = {}
             /\ outcome = "insert_error" => data # {}
             /\ db' = IF outcome = "stored" THEN db \o NewRows(ticker, data, run) ELSE db
             /\ failed' = IF outcome = "stored" THEN failed ELSE failed \cup {ticker}
    /\ idx' = idx + 1
    /\ UNCHANGED <<run, phase, tickers, last_dates>>
    /\ UNCHANGED appVars

\* conn.close() after the last ticker
Finish ==
    /\ phase = "loop"
    /\ idx > Len(tickers)
    /\ phase' = "done"
    /\ UNCHANGED <<db, run, tickers, idx, last_dates, failed>>
    /\ UNCHANGED appVars

UpdNext == StartRun \/ ReadLastDates \/ ProcessTicker \/ Finish

SpecUpdate == UpdInit /\ [][UpdNext]_vars

-----------------------------------------------------------------------------
(* Properties of the dashboard pipeline *)

SymbolsIn(rows) == {rows[i][<<"symbol">>] : i \in 1..Len(rows)}
RowsOf(rows, s) == {rows[i] : i \in {j \in 1..Len(rows) : rows[j][<<"symbol">>] = s}}
HasValue(v) == v[2] # 0

\* C1: the snapshot holds exactly one row for every symbol of the enriched
\* table and no other row, and the row kept for a symbol is the row of the
\* enriched table that carries the symbol's maximum date (stated of the state
\* that latest is built in; no later step assigns latest or df).
C1_SnapshotOnePerSymbol ==
    pc = "snapshot" =>
        /\ SymbolsIn(latest.rows) = SymbolsIn(df.rows)
        /\ \A s \in SymbolsIn(df.rows) :
              Cardinality({i \in 1..Len(latest.rows) : latest.rows[i][<<"symbol">>] = s}) = 1
        /\ \A i \in 1..Len(latest.rows) :
              LET r == latest.rows[i]
              IN /\ \A q \in RowsOf(df.rows, r[<<"symbol">>]) : q[<<"date">>] <= r[<<"date">>]
                 /\ Restrict(r, df.cols) \in RowsOf(df.rows, r[<<"symbol">>])

\* two symbols, one of them with several bars, reduced to two rows
C1_Witness ==
    /\ pc = "snapshot"
    /\ Len(df.rows) = 3
    /\ Len(latest.rows) = 2
    /\ \E i \in 1..2 : latest.rows[i][<<"date">>] = 3 /\ latest.rows[i][<<"symbol">>] = "ACC"
    /\ \E i \in 1..3 : df.rows[i][<<"date">>] = 1 /\ df.rows[i][<<"symbol">>] = "ACC"

RECURSIVE SumClose(_)
SumClose(S) ==
    IF S = {} THEN 0
    ELSE LET r == CHOOSE x \in S : TRUE IN r[<<"close">>] + SumClose(S \ {r})

\* the rows of r's symbol dated no later than r, and the last p of them
UpTo(rows, r) == {q \in RowsOf(rows, r[<<"symbol">>]) : q[<<"date">>] <= r[<<"date">>]}
Window(rows, r, p) ==
    {q \in UpTo(rows, r) :
        Cardinality({x \in UpTo(rows, r) : x[<<"date">>] > q[<<"date">>]}) < p}

\* C9: for every symbol and every period p, sma{p} is null on the first p-1
\* rows of the symbol's date-ordered series and on every later row is the
\* arithmetic mean of the closes of that row and the p-1 rows before it within
\* the same symbol (stated of the frame compute_indicators returns).
C9_SmaIsTrailingMean ==
    pc = "computed" =>
        \A i \in 1..Len(df.rows), p \in ma_needed(cfg) :
            LET r == df.rows[i]
            IN r[<<"sma", p>>] =
                  IF Cardinality(UpTo(df.rows, r)) < p THEN NaN
                  ELSE <<SumClose(Window(df.rows, r, p)), p>>

\* a third row whose two-row window has left the first row behind, next to
\* another symbol's row
C9_Witness ==
    /\ pc = "computed"
    /\ <<"sma", 2>> \in df.cols
    /\ SymbolsIn(df.rows) = Symbols
    /\ \E i \in 1..Len(df.rows) :
          LET r == df.rows[i]
          IN /\ Cardinality(UpTo(df.rows, r)) = 3
             /\ r[<<"sma", 2>>] = <<3, 2>>
             /\ SumClose(UpTo(df.rows, r)) = 5

\* what the filter widgets ask of a snapshot row
PassesMinPrice(r) == r[<<"close">>] >= ctl.min_price
InRange(v, lo, hi) == HasValue(v) /\ lo * v[2] <= v[1] /\ v[1] <= hi * v[2]
PassesDaily(r) == InRange(r[<<"chg_daily">>], ctl.daily_min, ctl.daily_max)
PassesWeekly(r) == InRange(r[<<"chg_weekly">>], ctl.weekly_min, ctl.weekly_max)
PassesMonthly(r) == InRange(r[<<"chg_monthly">>], ctl.monthly_min, ctl.monthly_max)
PassesMa(r, col) == HasValue(r[col]) /\ r[<<"close">>] * r[col][2] > r[col][1]
VolAvg(r) == r[<<"vol_sma", cfg.vol_sma_period>>]
PassesSurge(r) ==
    /\ HasValue(VolAvg(r))
    /\ r[<<"volume">>] * ctl.vol_multiplier[2] * VolAvg(r)[2]
          > ctl.vol_multiplier[1] * VolAvg(r)[1]
PassesMinVolume(r) == r[<<"volume">>] >= ctl.min_volume_value

PassesEnabled(r) ==
    /\ PassesMinPrice(r)
    /\ ctl.enable_daily => PassesDaily(r)
    /\ ctl.enable_weekly => PassesWeekly(r)
    /\ ctl.enable_monthly => PassesMonthly(r)
    /\ \A col \in DOMAIN ctl.ma_filters : ctl.ma_filters[col] => PassesMa(r, col)
    /\ ctl.vol_surge => PassesSurge(r)
    /\ ctl.enable_vol_min => PassesMinVolume(r)

\* C2: a snapshot row is in the filtered result exactly when it satisfies
\* every enabled predicate (the minimum close price, the ticked % ranges, the
\* ticked close > MA/EMA boxes, the volume surge, the minimum volume).
C2_FilterIsConjunction ==
    pc = "filtered" =>
        /\ \A i \in 1..Len(latest.rows) :
              (latest.rows[i] \in SeqToSet(f.rows)) <=> PassesEnabled(latest.rows[i])
        /\ SeqToSet(f.rows) \subseteq SeqToSet(latest.rows)

\* the daily range keeps one symbol, at the very end of the range, and drops
\* the other
C2_Witness ==
    /\ pc = "filtered"
    /\ ctl.enable_daily
    /\ Len(latest.rows) = 2
    /\ Len(f.rows) = 1
    /\ f.rows[1][<<"chg_daily">>] = <<100, 1>>
    /\ ctl.daily_max = 100
    /\ \A i \in 1..2 : PassesMinPrice(latest.rows[i])

NullFieldOfEnabledFilter(r) ==
    \/ ctl.enable_daily /\ IsNaN(r[<<"chg_daily">>])
    \/ ctl.enable_weekly /\ IsNaN(r[<<"chg_weekly">>])
    \/ ctl.enable_monthly /\ IsNaN(r[<<"chg_monthly">>])
    \/ \E col \in DOMAIN ctl.ma_filters : ctl.ma_filters[col] /\ IsNaN(r[col])
    \/ ctl.vol_surge /\ IsNaN(VolAvg(r))

\* C5: a snapshot row for which an enabled % change, close > MA/EMA or
\* volume-surge filter reads a null indicator is not in the filtered result,
\* and the filters raise no error.
C5_NullFieldExcludes ==
    pc = "filtered" =>
        /\ error = NoError
        /\ \A i \in 1..Len(latest.rows) :
              NullFieldOfEnabledFilter(latest.rows[i])
                  => latest.rows[i] \notin SeqToSet(f.rows)

\* a ticked close > SMA box: the symbol with too short a history is dropped,
\* the other symbol stays
C5_Witness ==
    /\ pc = "filtered"
    /\ \E col \in DOMAIN ctl.ma_filters :
          /\ ctl.ma_filters[col]
          /\ col[1] = "sma"
          /\ \E i \in 1..Len(latest.rows) : IsNaN(latest.rows[i][col])
          /\ \E i \in 1..Len(latest.rows) : HasValue(latest.rows[i][col])
    /\ Len(f.rows) = 1

NoBoxTicked ==
    /\ ~ctl.enable_daily /\ ~ctl.enable_weekly /\ ~ctl.enable_monthly
    /\ ~ctl.vol_surge /\ ~ctl.enable_vol_min
    /\ \A col \in DOMAIN ctl.ma_filters : ~ctl.ma_filters[col]

\* C6 as stated: with every filter checkbox off the filtered result is the
\* whole snapshot, unchanged.
C6_Original == (pc = "filtered" /\ NoBoxTicked) => f = latest

\* C6 as amended: with every filter checkbox off the filtered result is the
\* snapshot rows whose close is at least min_price, unchanged and in snapshot
\* order (the minimum close price has no checkbox and always applies).
C6_OnlyMinPrice ==
    (pc = "filtered" /\ NoBoxTicked) =>
        /\ f.cols = latest.cols
        /\ f.rows = SelectSeq(latest.rows, LAMBDA r : r[<<"close">>] >= ctl.min_price)

\* no box ticked, and the minimum price alone drops one of two symbols
C6_Witness ==
    /\ pc = "filtered"
    /\ NoBoxTicked
    /\ Len(latest.rows) = 2
    /\ Len(f.rows) = 1
    /\ f.rows[1][<<"close">>] = ctl.min_price

-----------------------------------------------------------------------------
(* Properties of compute_indicators *)

ComputeStep == pc = "loaded" /\ pc' # "loaded"
BenchmarkCols == {<<"bench_close">>, <<"relative_perf">>}

\* the rows of symbol s, in frame order, without the benchmark columns
DerivedOf(d, s) ==
    LET g == GroupRows(d.rows, s)
    IN [i \in 1..Len(g) |-> Restrict(g[i], d.cols \ BenchmarkCols)]

\* the input table cut down to symbol s alone, its bars in ascending date order
Isolated(d, s) ==
    [cols |-> d.cols, rows |-> OrderedRows(RowsOf(d.rows, s), << <<"date">> >>)]

\* C4: the values compute_indicators derives for a symbol (SMA, EMA, volume
\* average, % changes, MA ratio) are those it derives from that symbol's bars
\* alone taken in ascending date order, whatever the row order of the input
\* and whatever the other symbols' bars; relative_perf is left aside.
C4_PerSymbolIsolation ==
    [][ (ComputeStep /\ pc' = "computed") =>
            \A s \in SymbolsIn(df.rows) :
                DerivedOf(df', s) = DerivedOf(compute_indicators(Isolated(df, s), cfg').df, s)
      ]_vars

\* an enriched table of two symbols with two bars each, whose EMA has moved
C4_Witness ==
    /\ pc = "computed"
    /\ Len(df.rows) = 4
    /\ \A s \in Symbols : Cardinality(RowsOf(df.rows, s)) = 2
    /\ <<"ema", 2>> \in df.cols
    /\ \E i \in 1..4 : df.rows[i][<<"ema", 2>>] = <<5, 3>>

BenchmarkDates(rows) == {q[<<"date">>] : q \in RowsOf(rows, BENCHMARK_SYMBOL)}

\* C3 as stated: for every input table and configuration compute_indicators
\* returns one output row per input bar, none dropped and none duplicated, and
\* a row whose date the benchmark series lacks has a null relative_perf.
C3_OneRowPerBar ==
    [][ ComputeStep =>
            /\ pc' = "computed"
            /\ Len(df'.rows) = Len(df.rows)
            /\ \A i \in 1..Len(df.rows) :
                  Cardinality({j \in 1..Len(df'.rows) : Restrict(df'.rows[j], df.cols) = df.rows[i]})
                      = Cardinality({j \in 1..Len(df.rows) : df.rows[j] = df.rows[i]})
            /\ cfg'.enable_relative =>
                  \A j \in 1..Len(df'.rows) :
                      df'.rows[j][<<"date">>] \notin BenchmarkDates(df.rows)
                          => IsNaN(df'.rows[j][<<"relative_perf">>])
      ]_vars

InputOf(d) ==
    [cols |-> RequiredCols,
     rows |-> [i \in 1..Len(d.rows) |-> Restrict(d.rows[i], RequiredCols)]]

\* C8 as stated: with enable_relative on and no row of the benchmark symbol in
\* the input, compute_indicators does not fail, every relative_perf is null and
\* the other derived columns are those of the same call with enable_relative
\* off.
C8_NoBenchmarkDegrades ==
    (pc \in {"computed", "failed"} /\ cfg.enable_relative
        /\ BENCHMARK_SYMBOL \notin SymbolsIn(df.rows)) =>
        /\ pc = "computed"
        /\ \A i \in 1..Len(df.rows) : IsNaN(df.rows[i][<<"relative_perf">>])
        /\ LET off == compute_indicators(InputOf(df), [cfg EXCEPT !.enable_relative = FALSE]).df
           IN /\ Len(off.rows) = Len(df.rows)
              /\ \A i \in 1..Len(df.rows) : off.rows[i] = Restrict(df.rows[i], off.cols)

ReadCols == { <<"symbol">>, <<"date">>, <<"close">>, <<"volume">> }

ComputeFailed == pc = "failed" /\ error.at = "compute_indicators"
ComputeReturned == pc \in {"computed", "snapshot"} \/ (pc = "failed" /\ error.at = "latest")

-----------------------------------------------------------------------------
(* Properties of the update script *)

UniqueKey ==
    \A i, j \in 1..Len(db) :
        (db[i].symbol = db[j].symbol /\ db[i].date = db[j].date) => i = j

\* a step keeps every stored row in place; a row it adds belongs to the ticker
\* being processed and is dated after every stored row of that symbol
AppendsNewerOnly ==
    /\ Len(db') >= Len(db)
    /\ SubSeq(db', 1, Len(db)) = db
    /\ \A k \in (Len(db) + 1)..Len(db') :
          /\ phase = "loop"
          /\ db'[k].symbol = SymbolOf(tickers[idx])
          /\ \A i \in 1..Len(db) :
                db[i].symbol = db'[k].symbol => TextLess(db[i].date, db'[k].date)

\* a step taken while a ticker is pending moves on to the next ticker,
\* whatever became of the download and the insert
MovesOn == (phase = "loop" /\ idx <= Len(tickers)) => (phase' = "loop" /\ idx' = idx + 1)

\* C10: over any sequence of runs, failed downloads and inserts included, the
\* prices table holds at most one row per (symbol, date): a run appends for a
\* ticker only bars dated after the symbol's stored MAX(date), never rewrites
\* or deletes a row, and a failure on one ticker does not keep the remaining
\* tickers from being processed.
C10_AtMostOneRowPerKey ==
    /\ []UniqueKey
    /\ [][AppendsNewerOnly /\ MovesOn]_vars
    /\ [](phase = "done" => idx = (IF tickers = << >> THEN 0 ELSE Len(tickers) + 1))

\* second run: the first ticker failed, the second one got March bars on top
\* of its February bars of the first run
C10_Witness ==
    /\ phase = "done"
    /\ run = 2
    /\ Len(tickers) = 2
    /\ tickers[1] \in failed
    /\ \E i, j \in 1..Len(db) :
          /\ db[i].symbol = SymbolOf(tickers[2]) /\ db[i].run = 1 /\ db[i].date[2] = 2
          /\ db[j].symbol = SymbolOf(tickers[2]) /\ db[j].run = 2 /\ db[j].date[2] = 3

====
